---- MODULE Spec2Model ----
(***************************************************************************)
(* jss::indexed_view (indexed_view.hpp): an adapter that turns a range     *)
(* into a range of {index, value} entries.  The model covers               *)
(*   - the three kinds of underlying range the tests adapt: a container    *)
(*     (vector, array, deque: iterator and end iterator of one type,       *)
(*     dereference yields a reference), my_range (iterator + sentinel of   *)
(*     a different type, dereference yields a value) and numeric_range     *)
(*     (a one-pass generator whose iterators share the range's state);     *)
(*   - indexed_view_type (source_begin, source_end, begin(), end());       *)
(*   - indexed_view_type::iterator: a size_t index plus raw storage that   *)
(*     holds either an UnderlyingIterator or an UnderlyingSentinel, the    *)
(*     two told apart by index != sentinel_marker.                         *)
(* size_t is modelled W bits wide (arithmetic modulo 2^W).                 *)
(*                                                                         *)
(* Two specifications share the state:                                     *)
(*   Spec          the caller applies the iterator's operations by hand    *)
(*                 to a few iterator variables, in any order;              *)
(*   SpecTraverse  the caller runs a range-for loop over the view, twice.  *)
(***************************************************************************)
EXTENDS Integers, Sequences, FiniteSets, TLC

(* ------------------------------ bounds -------------------------------- *)

\* width in bits of size_t in the model
W == 2
\* largest number of elements of the underlying range
MaxLen == 4
\* number of iterator variables the caller holds
NumSlots == 2
\* number of owning view objects that can come to exist
MaxViews == 3

(* ----------------------- constants of the code ------------------------ *)

SizeMod == 2 ^ W

\* static constexpr size_t sentinel_marker= ~static_cast<size_t>(0);
sentinel_marker == SizeMod - 1

\* unsigned const base= 5;   (first value of the numeric_range in the tests)
base == 5

\* the values the callers write through an entry
WriteVals == {1}

Kinds == {"container", "my_range", "numeric_range"}
Slots == 1 .. NumSlots
\* identities of the owning view objects
ViewIds == 1 .. MaxViews

None == [none |-> TRUE]

VARIABLES
    kind,      \* which underlying range the view adapts
    n,         \* number of elements of the underlying range
    values,    \* elements of the container / my_range::values
    current,   \* numeric_range::current
    final,     \* numeric_range::final
    view,      \* indexed_view_type: [source_begin, source_end]
    its,       \* the caller's iterator variables: slot -> iterator or None
    last,      \* the caller's last operation and what it returned
    pc,        \* range-for loop: position in the loop
    pass,      \* range-for loop: which traversal of the view (1 or 2)
    loop_it,   \* range-for loop: __begin
    loop_end,  \* range-for loop: __end
    x,         \* range-for loop: the entry *__begin of this iteration
    out,       \* range-for loop: entries seen, one sequence per pass
    temporary, \* the temporary range handed to indexed_view(Range &&)
    views      \* owning views: id -> extended_indexed_view_type or None

vars == << kind, n, values, current, final, view, its, last,
           pc, pass, loop_it, loop_end, x, out, temporary, views >>

srcVars == << kind, n, values, current, final, view >>
freeVars == << its, last >>
loopVars == << pc, pass, loop_it, loop_end, x, out >>
ownVars == << temporary, views >>

(* --------------------- the underlying ranges -------------------------- *)
(* An underlying iterator or sentinel is a record [pos, range]:            *)
(*   container      pos = offset of the element pointed to; range unused   *)
(*   my_range       iterator: pos = my_range::iterator::index;             *)
(*                  sentinel: an empty class, always my_sentinel           *)
(*   numeric_range  range = TRUE iff numeric_range::iterator::range is     *)
(*                  not nullptr; pos unused (the position is the range's   *)
(*                  own `current`, shared by all its iterators)            *)

\* std::vector<int> v{42, 56, 99}: the i-th (0-based) element of a container
ContainerElt(i) == 42 + 14 * i

\* my_range::my_range(): values[index] = index * 2
MyRangeElt(i) == i * 2

\* class sentinel {};
my_sentinel == [pos |-> 0, range |-> FALSE]

\* numeric_range::at_end(), direction::increasing
at_end(cur, fin) == cur >= fin

\* std::begin(source) / my_range::begin() / numeric_range::begin()
\*   numeric_range::iterator(range_): if(range) check_done();
std_begin(k, cur, fin) ==
    IF k = "numeric_range"
    THEN [pos |-> 0, range |-> ~at_end(cur, fin)]
    ELSE [pos |-> 0, range |-> TRUE]

\* std::end(source) / my_range::end() / numeric_range::end()
std_end(k, len) ==
    CASE k = "container"     -> [pos |-> len, range |-> TRUE]
      [] k = "my_range"      -> my_sentinel
      [] k = "numeric_range" -> [pos |-> 0, range |-> FALSE]

\* UnderlyingIterator != UnderlyingSentinel, the source's own comparison
\*   container:     pointer comparison
\*   my_range:      return lhs.index != max;
\*   numeric_range: return !(lhs.range == rhs.range);
underlying_neq(k, len, i, s) ==
    CASE k = "container"     -> i.pos # s.pos
      [] k = "my_range"      -> i.pos # len
      [] k = "numeric_range" -> i.range # s.range

\* can the underlying iterator be dereferenced and incremented?
\*   container, my_range: it points at an element;
\*   numeric_range: range is not nullptr (operator++ throws otherwise)
underlying_valid(k, len, i) ==
    IF k = "numeric_range" THEN i.range ELSE i.pos < len

\* *underlying_iterator: the element value read
underlying_deref(k, vals, cur, i) ==
    IF k = "numeric_range" THEN cur ELSE vals[i.pos + 1]

\* does *underlying_iterator yield a reference (T&) or a value (T)?
\*   container: int &; my_range: size_t operator*(); numeric_range: T operator*()
yields_reference(k) == k = "container"

\* ++underlying_iterator: the iterator afterwards
\*   numeric_range: range->inc(range->current); check_done();
underlying_inc(k, cur, fin, i) ==
    IF k = "numeric_range"
    THEN [i EXCEPT !.range = ~at_end(cur + 1, fin)]
    ELSE [i EXCEPT !.pos = @ + 1]

\* ++underlying_iterator: numeric_range::current afterwards
current_after_inc(k, cur) ==
    IF k = "numeric_range" THEN cur + 1 ELSE cur

(* ------------------ indexed_view_type::iterator ----------------------- *)
(* An iterator is a record                                                 *)
(*   index     the stored size_t index                                     *)
(*   holds     what was placement-constructed in the raw storage:          *)
(*             "UnderlyingIterator" or "UnderlyingSentinel"                *)
(*   storage   that object                                                 *)
(*   advanced  history: operator++ calls since the begin() it derives from *)

\* value_type::value when it is an owned copy: it refers to no element
NoRef == 0 - 1

\* bool is_iterator() const noexcept { return index != sentinel_marker; }
is_iterator(it) == it.index # sentinel_marker

\* UnderlyingIterator &get_source_iterator(): the storage read as an iterator
get_source_iterator(it) == it.storage

\* UnderlyingSentinel &get_sentinel(): the storage read as a sentinel
\*   my_range::sentinel is an empty class: it has no state to read
get_sentinel(k, it) ==
    IF k = "my_range" THEN my_sentinel ELSE it.storage

\* iterator(size_t index_, UnderlyingIterator &source_iter_)
iterator_from_position(index_, source_iter_) ==
    [index |-> index_, holds |-> "UnderlyingIterator",
     storage |-> source_iter_, advanced |-> 0]

\* iterator(UnderlyingSentinel &sentinel_)
iterator_from_sentinel(sentinel_) ==
    [index |-> sentinel_marker, holds |-> "UnderlyingSentinel",
     storage |-> sentinel_, advanced |-> 0]

\* operator!= that forgets the sentinel alternative and compares indices only
iterator_neq_index_only(k, len, lhs, rhs) == lhs.index # rhs.index

\* friend bool operator!=(iterator const &lhs, iterator const &rhs)
RECURSIVE iterator_neq(_, _, _, _)
iterator_neq(k, len, lhs, rhs) ==
    IF is_iterator(lhs)
    THEN IF is_iterator(rhs)
         THEN lhs.index # rhs.index
         ELSE underlying_neq(k, len, get_source_iterator(lhs),
                             get_sentinel(k, rhs))
    ELSE IF is_iterator(rhs)
         THEN iterator_neq(k, len, rhs, lhs)
         ELSE FALSE

\* friend bool operator==(lhs, rhs) { return !(lhs != rhs); }
iterator_eq(k, len, lhs, rhs) == ~iterator_neq(k, len, lhs, rhs)

\* value_type whose value member is always an object (never a reference)
value_type_always_copy(k, index_, read, at) ==
    [index |-> index_, value |-> read, ref |-> NoRef]

\* value_type whose value member is always a reference into the range
value_type_always_reference(k, index_, read, at) ==
    [index |-> index_, value |-> read, ref |-> at]

\* struct value_type { size_t index; underlying_value_type value; };
\*   value is a reference to the element when *underlying yields one,
\*   and a copy of it otherwise
value_type(k, index_, read, at) ==
    [index |-> index_, value |-> read,
     ref |-> IF yields_reference(k) THEN at ELSE NoRef]

\* const value_type operator*() const
\*   return value_type{index, *get_source_iterator()};
dereference(k, vals, cur, it) ==
    value_type(k, it.index,
               underlying_deref(k, vals, cur, get_source_iterator(it)),
               get_source_iterator(it).pos)

\* arrow_proxy operator->() const
\*   return arrow_proxy{value_type{index, *get_source_iterator()}};
arrow(k, vals, cur, it) ==
    value_type(k, it.index,
               underlying_deref(k, vals, cur, get_source_iterator(it)),
               get_source_iterator(it).pos)

\* operator++ that steps the underlying iterator but forgets ++index
pre_increment_without_index(k, cur, fin, it) ==
    [it EXCEPT !.storage = underlying_inc(k, cur, fin, get_source_iterator(it)),
               !.advanced = @ + 1]

\* iterator &operator++(): ++get_source_iterator(); ++index;
pre_increment(k, cur, fin, it) ==
    [it EXCEPT !.storage = underlying_inc(k, cur, fin, get_source_iterator(it)),
               !.index = (@ + 1) % SizeMod,
               !.advanced = @ + 1]

\* void construct_from(iterator const &other) / (iterator &&other)
\*   (the underlying iterators and sentinels of the three ranges are
\*   trivially movable: moving one copies it and leaves the source as is)
construct_from(k, other) ==
    [index |-> other.index,
     holds |-> IF is_iterator(other) THEN "UnderlyingIterator"
                                     ELSE "UnderlyingSentinel",
     storage |-> IF is_iterator(other) THEN get_source_iterator(other)
                                       ELSE get_sentinel(k, other),
     advanced |-> other.advanced]

(* ------------------------ indexed_view_type --------------------------- *)

\* jss::indexed_view(...): the view over the range, whichever factory makes it
\*   indexed_view_type(begin_, end_): source_begin(move(begin_)), source_end(move(end_))
indexed_view(k, len, cur, fin) ==
    [source_begin |-> std_begin(k, cur, fin), source_end |-> std_end(k, len)]

\* begin() that copies the stored limit instead of the stored start
begin_from_source_end(v) == iterator_from_position(0, v.source_end)

\* iterator begin() { return iterator(0, source_begin); }
begin(v) == iterator_from_position(0, v.source_begin)

\* iterator end() { return iterator(source_end); }
end(v) == iterator_from_sentinel(v.source_end)

(* ---------- range_holder and extended_indexed_view_type --------------- *)
(* jss::indexed_view(range(base, base + count)): the factory for rvalue    *)
(* ranges returns an extended_indexed_view_type, which keeps the range in  *)
(* its range_holder base and the begin/end of that stored range in its     *)
(* indexed_view_type base.                                                 *)
(* A range lives in a place: the caller's temporary or a view object.  Its *)
(* `buf` names the storage its iterators refer into: the place itself for  *)
(* numeric_range and my_range, whose iterators hold a pointer to the range *)
(* object, and the heap buffer for a container, which a move hands over.   *)
(* A stored marker is [marker, into]: the underlying iterator or sentinel  *)
(* and the storage it refers into, NoBuf if it holds no reference.         *)
(* A view is [state, made, range, buf, source_begin, source_end]:          *)
(*   state  "holder"    range_holder base constructed, indexed_view_type   *)
(*                      base not yet                                       *)
(*          "built"     constructor finished, object not yet returned      *)
(*          "live"      an object of the caller                            *)
(*          "destroyed"                                                    *)
(*   made   "constructed", "copied" or "moved": the constructor that ran   *)
(*   range  "held" or "moved_from": source_range                           *)

\* the place of the temporary range(base, base + count)
TemporaryPlace == 0

\* no storage: a null pointer, an empty sentinel, a moved-from container
NoBuf == 0 - 1

\* does the range keep what its iterators refer to inside the range object?
\*   numeric_range::iterator { numeric_range *range; }
\*   my_range::iterator { my_range *range; unsigned index; }
inline(k) == k # "container"

\* does the underlying iterator or sentinel m hold a reference?
\*   numeric_range: range != nullptr; my_range: the iterator does, class
\*   sentinel {} does not; container: a pointer into the buffer, if any
refers(k, len, m) == IF k = "container" THEN len > 0 ELSE m.range

\* Range(std::move(other)) constructed at place `at`: the storage the new
\* range's iterators refer into
buf_moved_to(k, b, at) == IF inline(k) THEN at ELSE b

\* ... and the storage left to the moved-from range
buf_moved_from(k, b) == IF inline(k) THEN b ELSE NoBuf

\* Range(other) constructed at place `at`
buf_copied_to(k, b, at) == IF inline(k) \/ b # NoBuf THEN at ELSE NoBuf

\* range_holder::get_source_begin(): std::begin(source_range)
get_source_begin(k, len, cur, fin, b) ==
    [marker |-> std_begin(k, cur, fin),
     into |-> IF refers(k, len, std_begin(k, cur, fin)) THEN b ELSE NoBuf]

\* range_holder::get_source_end(): std::end(source_range)
get_source_end(k, len, b) ==
    [marker |-> std_end(k, len),
     into |-> IF refers(k, len, std_end(k, len)) THEN b ELSE NoBuf]

(* ------------------------------ Init ---------------------------------- *)

\* the elements of the underlying range as constructed
InitialValues(k, len) ==
    CASE k = "container"     -> [i \in 1 .. len |-> ContainerElt(i - 1)]
      [] k = "my_range"      -> [i \in 1 .. len |-> MyRangeElt(i - 1)]
      [] k = "numeric_range" -> [i \in 1 .. len |-> base + (i - 1)]

Init ==
    /\ kind \in Kinds
    /\ n \in 0 .. MaxLen
    /\ values = InitialValues(kind, n)
    /\ current = base
    /\ final = base + n
    /\ view = indexed_view(kind, n, base, base + n)
    /\ its = [s \in Slots |-> None]
    /\ last = None
    /\ pc = "start"
    /\ pass = 1
    /\ loop_it = None
    /\ loop_end = None
    /\ x = None
    /\ out = << << >>, << >> >>
    /\ temporary = [state |-> "live", buf |-> TemporaryPlace]
    /\ views = [o \in ViewIds |-> None]

(* ---------------------- the caller: range-for ------------------------- *)
(* for(auto &x : view) { output.push_back({x.index, x.value}); ... }       *)
(*   auto __begin = view.begin(); auto __end = view.end();                 *)
(*   for(; __begin != __end; ++__begin) { auto &x = *__begin; body }       *)
(* run twice over the same view object, as                                 *)
(* test_can_reuse_view_if_underlying_range_stable does.                    *)

\* x.value= v: assignment to value_type::value, through the reference if
\* value is one
write_through(vals, e, v) ==
    IF e.ref # NoRef THEN [vals EXCEPT ![e.ref + 1] = v] ELSE vals

RangeForBegin ==
    /\ pc = "start"
    /\ loop_it' = begin(view)
    /\ loop_end' = end(view)
    /\ pc' = "test"
    /\ UNCHANGED << ownVars, srcVars, freeVars, pass, x, out >>

RangeForTest ==
    /\ pc = "test"
    /\ IF iterator_neq(kind, n, loop_it, loop_end)
       THEN /\ x' = dereference(kind, values, current, loop_it)
            /\ pc' = "body"
       ELSE /\ x' = None
            /\ pc' = "done"
    /\ UNCHANGED << ownVars, srcVars, freeVars, pass, loop_it, loop_end, out >>

\* the body only reads the entry
RangeForBodyRead ==
    /\ pc = "body"
    /\ out' = [out EXCEPT ![pass] = Append(@, [index |-> x.index, value |-> x.value])]
    /\ pc' = "inc"
    /\ UNCHANGED << ownVars, srcVars, freeVars, pass, loop_it, loop_end, x >>

\* the body reads the entry and then assigns to x.value
RangeForBodyWrite ==
    /\ pc = "body"
    /\ \E v \in WriteVals :
          /\ values' = write_through(values, x, v)
          /\ x' = [x EXCEPT !.value = v]
    /\ out' = [out EXCEPT ![pass] = Append(@, [index |-> x.index, value |-> x.value])]
    /\ pc' = "inc"
    /\ UNCHANGED << ownVars, kind, n, current, final, view, freeVars, pass, loop_it, loop_end >>

RangeForIncrement ==
    /\ pc = "inc"
    /\ loop_it' = pre_increment(kind, current, final, loop_it)
    /\ current' = current_after_inc(kind, current)
    /\ pc' = "test"
    /\ UNCHANGED << ownVars, kind, n, values, final, view, freeVars, pass, loop_end, x, out >>

\* the first loop is over (its iterators are gone): run the second
RangeForAgain ==
    /\ pc = "done"
    /\ pass = 1
    /\ pass' = 2
    /\ pc' = "start"
    /\ loop_it' = None
    /\ loop_end' = None
    /\ UNCHANGED << ownVars, srcVars, freeVars, x, out >>

NextTraverse ==
    \/ RangeForBegin
    \/ RangeForTest
    \/ RangeForBodyRead
    \/ RangeForBodyWrite
    \/ RangeForIncrement
    \/ RangeForAgain

SpecTraverse == Init /\ [][NextTraverse]_vars

(* ------------------ the caller: iterators by hand --------------------- *)
(* The caller holds NumSlots iterator variables and applies the public     *)
(* operations of the iterator to them in any order its preconditions       *)
(* allow.  `last` records the operation just done: its name, the slots it  *)
(* was applied to (a, and b for the second operand), the two operands as   *)
(* they were before (before, other), and what it returned.                 *)

Op(name, a_, b_, before_, other_, entry_, ne_, eq_, events_) ==
    [op |-> name, a |-> a_, b |-> b_, before |-> before_, other |-> other_,
     entry |-> entry_, ne |-> ne_, eq |-> eq_, events |-> events_]

\* new(get_storage_ptr()) UnderlyingIterator(...) or UnderlyingSentinel(...):
\* the payload that now lives in the storage of `it`
constructed(it) == [ev |-> "construct", as |-> it.holds]

\* void destroy()
\*   if(is_iterator()) get_source_iterator().~UnderlyingIterator();
\*   else get_sentinel().~UnderlyingSentinel();
\* `as` is the destructor the discriminant selects, `was` the payload that
\* lived in the storage
destroy(it) ==
    [ev |-> "destroy",
     as |-> IF is_iterator(it) THEN "UnderlyingIterator" ELSE "UnderlyingSentinel",
     was |-> it.holds]

\* operator*, operator-> and operator++ require an iterator that holds an
\* underlying iterator which can itself be dereferenced and incremented,
\* and that the adapter still recognises as one (the count of advances
\* stays within what the size_t index can distinguish from the marker)
Dereferenceable(it) ==
    /\ it # None
    /\ it.holds = "UnderlyingIterator"
    /\ is_iterator(it)
    /\ underlying_valid(kind, n, get_source_iterator(it))

\* auto it= view.begin();
Begin(s) ==
    /\ its[s] = None
    /\ its' = [its EXCEPT ![s] = begin(view)]
    /\ last' = Op("begin", s, s, None, None, None, FALSE, FALSE,
                  << constructed(begin(view)) >>)
    /\ UNCHANGED << ownVars, srcVars, loopVars >>

\* auto it2= view.end();
End(s) ==
    /\ its[s] = None
    /\ its' = [its EXCEPT ![s] = end(view)]
    /\ last' = Op("end", s, s, None, None, None, FALSE, FALSE,
                  << constructed(end(view)) >>)
    /\ UNCHANGED << ownVars, srcVars, loopVars >>

\* ++it;
Advance(s) ==
    /\ Dereferenceable(its[s])
    /\ current <= final
    /\ its' = [its EXCEPT ![s] = pre_increment(kind, current, final, its[s])]
    /\ current' = current_after_inc(kind, current)
    /\ last' = Op("advance", s, s, its[s], None, None, FALSE, FALSE, << >>)
    /\ UNCHANGED << ownVars, kind, n, values, final, view, loopVars >>

\* operator++(int) that reads the entry after advancing instead of before
PostIncrement_reads_after(s) ==
    /\ Dereferenceable(its[s])
    /\ current <= final
    /\ LET after == pre_increment(kind, current, final, its[s])
           temp == IF underlying_valid(kind, n, get_source_iterator(after))
                   THEN dereference(kind, values, current_after_inc(kind, current), after)
                   ELSE [index |-> after.index, value |-> 0, ref |-> NoRef]
       IN  /\ its' = [its EXCEPT ![s] = after]
           /\ current' = current_after_inc(kind, current)
           /\ last' = Op("postinc", s, s, its[s], None, temp, FALSE, FALSE, << >>)
    /\ UNCHANGED << ownVars, kind, n, values, final, view, loopVars >>

\* postinc_return operator++(int)
\*   postinc_return temp{**this}; ++*this; return temp;
PostIncrement(s) ==
    /\ Dereferenceable(its[s])
    /\ current <= final
    /\ LET temp == dereference(kind, values, current, its[s])
       IN  /\ its' = [its EXCEPT ![s] = pre_increment(kind, current, final, its[s])]
           /\ current' = current_after_inc(kind, current)
           /\ last' = Op("postinc", s, s, its[s], None, temp, FALSE, FALSE, << >>)
    /\ UNCHANGED << ownVars, kind, n, values, final, view, loopVars >>

\* operator* that reads the entry and then steps the underlying iterator
Dereference_steps_source(s) ==
    /\ Dereferenceable(its[s])
    /\ current <= final
    /\ its' = [its EXCEPT ![s].storage = underlying_inc(kind, current, final, @)]
    /\ current' = current_after_inc(kind, current)
    /\ last' = Op("deref", s, s, its[s], None,
                  dereference(kind, values, current, its[s]), FALSE, FALSE, << >>)
    /\ UNCHANGED << ownVars, kind, n, values, final, view, loopVars >>

\* *it
Dereference(s) ==
    /\ Dereferenceable(its[s])
    /\ last' = Op("deref", s, s, its[s], None,
                  dereference(kind, values, current, its[s]), FALSE, FALSE, << >>)
    /\ UNCHANGED << ownVars, srcVars, its, loopVars >>

\* it->index, it->value
Arrow(s) ==
    /\ Dereferenceable(its[s])
    /\ last' = Op("arrow", s, s, its[s], None,
                  arrow(kind, values, current, its[s]), FALSE, FALSE, << >>)
    /\ UNCHANGED << ownVars, srcVars, its, loopVars >>

\* it != it2, it == it2
Compare(a, b) ==
    /\ its[a] # None
    /\ its[b] # None
    /\ last' = Op("compare", a, b, its[a], its[b], None,
                  iterator_neq(kind, n, its[a], its[b]),
                  iterator_eq(kind, n, its[a], its[b]), << >>)
    /\ UNCHANGED << ownVars, srcVars, its, loopVars >>

\* iterator(iterator const &other) { construct_from(other); }
CopyConstruct(a, b) ==
    /\ a # b
    /\ its[a] = None
    /\ its[b] # None
    /\ its' = [its EXCEPT ![a] = construct_from(kind, its[b])]
    /\ last' = Op("copy", a, b, None, its[b], None, FALSE, FALSE,
                  << constructed(construct_from(kind, its[b])) >>)
    /\ UNCHANGED << ownVars, srcVars, loopVars >>

\* iterator(iterator &&other) { construct_from(std::move(other)); }
MoveConstruct(a, b) ==
    /\ a # b
    /\ its[a] = None
    /\ its[b] # None
    /\ its' = [its EXCEPT ![a] = construct_from(kind, its[b])]
    /\ last' = Op("move", a, b, None, its[b], None, FALSE, FALSE,
                  << constructed(construct_from(kind, its[b])) >>)
    /\ UNCHANGED << ownVars, srcVars, loopVars >>

\* iterator &operator=(iterator const &other)
\*   if(&other != this) { destroy(); construct_from(other); }
CopyAssign(a, b) ==
    /\ its[a] # None
    /\ its[b] # None
    /\ its' = IF a # b THEN [its EXCEPT ![a] = construct_from(kind, its[b])]
                       ELSE its
    /\ last' = Op("copy_assign", a, b, its[a], its[b], None, FALSE, FALSE,
                  IF a # b THEN << destroy(its[a]),
                                   constructed(construct_from(kind, its[b])) >>
                           ELSE << >>)
    /\ UNCHANGED << ownVars, srcVars, loopVars >>

\* iterator &operator=(iterator &&other)
\*   if(&other != this) { destroy(); construct_from(std::move(other)); }
MoveAssign(a, b) ==
    /\ its[a] # None
    /\ its[b] # None
    /\ its' = IF a # b THEN [its EXCEPT ![a] = construct_from(kind, its[b])]
                       ELSE its
    /\ last' = Op("move_assign", a, b, its[a], its[b], None, FALSE, FALSE,
                  IF a # b THEN << destroy(its[a]),
                                   constructed(construct_from(kind, its[b])) >>
                           ELSE << >>)
    /\ UNCHANGED << ownVars, srcVars, loopVars >>

\* ~iterator() { destroy(); }
Destroy(s) ==
    /\ its[s] # None
    /\ its' = [its EXCEPT ![s] = None]
    /\ last' = Op("destroy", s, s, its[s], None, None, FALSE, FALSE,
                  << destroy(its[s]) >>)
    /\ UNCHANGED << ownVars, srcVars, loopVars >>

Next ==
    \/ \E s \in Slots : Begin(s)
    \/ \E s \in Slots : End(s)
    \/ \E s \in Slots : Advance(s)
    \/ \E s \in Slots : PostIncrement(s)
    \/ \E s \in Slots : Dereference(s)
    \/ \E s \in Slots : Arrow(s)
    \/ \E a, b \in Slots : Compare(a, b)
    \/ \E a, b \in Slots : CopyConstruct(a, b)
    \/ \E a, b \in Slots : MoveConstruct(a, b)
    \/ \E a, b \in Slots : CopyAssign(a, b)
    \/ \E a, b \in Slots : MoveAssign(a, b)
    \/ \E s \in Slots : Destroy(s)

Spec == Init /\ [][Next]_vars

(* ------------------ the caller: owning views -------------------------- *)
(* auto v= jss::indexed_view(range(base, base + count));                   *)
(* The constructor of extended_indexed_view_type initialises its bases in  *)
(* the order of the base-specifier-list: range_holder<Range>(source), then *)
(* indexed_view_type(this->get_source_begin(), this->get_source_end()).    *)
(* The factory returns the object by value: the build either constructs it *)
(* in the caller's object (copy elision) or move-constructs the caller's   *)
(* object from it and destroys it.  The caller can copy, move and destroy  *)
(* the views it has; the class declares no copy or move constructor, so    *)
(* the implicit ones copy or move each base.                               *)

\* is object o in one of the states S?
InState(o, S) == views[o] # None /\ views[o].state \in S

\* range_holder(Range &source_) : source_range(std::move(source_)) {}
HoldRange(o) ==
    /\ temporary.state = "live"
    /\ views[o] = None
    /\ views' = [views EXCEPT ![o] =
                    [state |-> "holder", made |-> "constructed", range |-> "held",
                     buf |-> buf_moved_to(kind, temporary.buf, o),
                     source_begin |-> None, source_end |-> None]]
    /\ temporary' = [state |-> "moved_from",
                     buf |-> buf_moved_from(kind, temporary.buf)]
    /\ UNCHANGED << srcVars, freeVars, loopVars >>

\* the second base, with markers taken from the caller's range instead of
\* the held one: indexed_view_type(std::begin(source), std::end(source))
ViewOverTemporary(o) ==
    /\ InState(o, {"holder"})
    /\ views' = [views EXCEPT ![o] =
                    [@ EXCEPT !.state = "built",
                              !.source_begin =
                                  get_source_begin(kind, n, current, final, temporary.buf),
                              !.source_end = get_source_end(kind, n, temporary.buf)]]
    /\ UNCHANGED << temporary, srcVars, freeVars, loopVars >>

\* indexed_view_type<UnderlyingIterator, UnderlyingSentinel>(
\*     this->get_source_begin(), this->get_source_end())
ViewOverHeld(o) ==
    /\ InState(o, {"holder"})
    /\ views' = [views EXCEPT ![o] =
                    [@ EXCEPT !.state = "built",
                              !.source_begin =
                                  get_source_begin(kind, n, current, final, views[o].buf),
                              !.source_end = get_source_end(kind, n, views[o].buf)]]
    /\ UNCHANGED << temporary, srcVars, freeVars, loopVars >>

\* return extended_indexed_view_type<...>(source); with the copy elided
ReturnElided(o) ==
    /\ InState(o, {"built"})
    /\ views' = [views EXCEPT ![o].state = "live"]
    /\ UNCHANGED << temporary, srcVars, freeVars, loopVars >>

\* extended_indexed_view_type(extended_indexed_view_type &&), implicit:
\* range_holder's source_range is moved, source_begin and source_end are
\* moved as they are
moved_view(from, at) ==
    [state |-> "live", made |-> "moved", range |-> from.range,
     buf |-> buf_moved_to(kind, from.buf, at),
     source_begin |-> from.source_begin, source_end |-> from.source_end]

\* what the move constructor leaves of its argument
moved_from_view(from) ==
    [from EXCEPT !.range = "moved_from", !.buf = buf_moved_from(kind, from.buf)]

\* return extended_indexed_view_type<...>(source); without copy elision:
\* the caller's object p is move-constructed, the returned object destroyed
ReturnMoved(o, p) ==
    /\ InState(o, {"built"})
    /\ views[p] = None
    /\ views' = [views EXCEPT ![p] = moved_view(views[o], p),
                              ![o] = [moved_from_view(@) EXCEPT !.state = "destroyed"]]
    /\ UNCHANGED << temporary, srcVars, freeVars, loopVars >>

\* the temporary range is destroyed at the end of the full-expression
DestroyTemporary ==
    /\ temporary.state = "moved_from"
    /\ \A o \in ViewIds : ~InState(o, {"holder", "built"})
    /\ temporary' = [temporary EXCEPT !.state = "destroyed"]
    /\ UNCHANGED << views, srcVars, freeVars, loopVars >>

\* auto w= v;  extended_indexed_view_type(extended_indexed_view_type const &),
\* implicit: source_range is copied, source_begin and source_end are copied
\* as they are
CopyView(o, p) ==
    /\ InState(o, {"live"})
    /\ views[p] = None
    /\ views' = [views EXCEPT ![p] =
                    [state |-> "live", made |-> "copied", range |-> views[o].range,
                     buf |-> buf_copied_to(kind, views[o].buf, p),
                     source_begin |-> views[o].source_begin,
                     source_end |-> views[o].source_end]]
    /\ UNCHANGED << temporary, srcVars, freeVars, loopVars >>

\* auto w= std::move(v);
MoveView(o, p) ==
    /\ InState(o, {"live"})
    /\ views[p] = None
    /\ views' = [views EXCEPT ![p] = moved_view(views[o], p),
                              ![o] = moved_from_view(@)]
    /\ UNCHANGED << temporary, srcVars, freeVars, loopVars >>

\* v goes out of scope: ~extended_indexed_view_type(), source_range with it
DestroyView(o) ==
    /\ InState(o, {"live"})
    /\ views' = [views EXCEPT ![o].state = "destroyed"]
    /\ UNCHANGED << temporary, srcVars, freeVars, loopVars >>

NextOwn ==
    \/ \E o \in ViewIds : HoldRange(o)
    \/ \E o \in ViewIds : ViewOverHeld(o)
    \/ \E o \in ViewIds : ReturnElided(o)
    \/ \E o, p \in ViewIds : ReturnMoved(o, p)
    \/ DestroyTemporary
    \/ \E o, p \in ViewIds : CopyView(o, p)
    \/ \E o, p \in ViewIds : MoveView(o, p)
    \/ \E o \in ViewIds : DestroyView(o)

SpecOwn == Init /\ [][NextOwn]_vars

(* ============================ properties ============================== *)

\* the first traversal of the view has run to its end
FirstTraversalDone == pass = 1 /\ pc = "done"

\* the entries a traversal of a range with elements R must produce
ExpectedEntries(R) == [i \in 1 .. Len(R) |-> [index |-> i - 1, value |-> R[i]]]

(* C1: for every source R with n elements, the loop from begin() to end()  *)
(* produces exactly n entries, the i-th (0-based) with index i and the     *)
(* value of the i-th element of R.  (Under SpecTraverse.)                  *)
C1_TraversalYieldsEveryElement ==
    FirstTraversalDone => out[1] = ExpectedEntries(InitialValues(kind, n))

\* what the code does yield: the claim for sources shorter than 2^W
C1_HoldsBelowSizeMod ==
    (FirstTraversalDone /\ n < SizeMod) =>
        out[1] = ExpectedEntries(InitialValues(kind, n))

(* C2: immediately after construction begin() == end() iff R is empty, in  *)
(* either operand order; an empty R produces no entry and a non-empty R    *)
(* enters the loop body.  (Under SpecTraverse.)                            *)
C2_BeginEqualsEndIffEmpty ==
    /\ (pass = 1 /\ pc = "test" /\ loop_it.advanced = 0) =>
          /\ iterator_eq(kind, n, loop_it, loop_end) <=> (n = 0)
          /\ iterator_eq(kind, n, loop_end, loop_it) <=> (n = 0)
          /\ iterator_neq(kind, n, loop_it, loop_end) <=> (n # 0)
    /\ (pass = 1 /\ pc = "body" /\ loop_it.advanced = 0) => n # 0
    /\ (FirstTraversalDone /\ loop_it.advanced = 0) => (n = 0 /\ out[1] = << >>)

C2_Witness == FirstTraversalDone /\ n = 0 /\ out[1] = << >>

(* C3: when the source yields references, the entry obtained at index i    *)
(* aliases element i of the source: it reads that element, and assigning   *)
(* to entry.value changes exactly element i.  (Under SpecTraverse.)        *)
C3_WriteThroughAliasesElement ==
    [][ (pc = "body" /\ pc' = "inc" /\ yields_reference(kind)) =>
          /\ x.ref = x.index
          /\ x.value = values[x.index + 1]
          /\ (x'.value # x.value) =>
                values' = [values EXCEPT ![x.index + 1] = x'.value]
          /\ (x' = x) => values' = values ]_vars

C3_Witness ==
    /\ yields_reference(kind)
    /\ pc = "inc"
    /\ x.index = 2
    /\ x.value \in WriteVals
    /\ values[3] = x.value
    /\ values[1] = InitialValues(kind, n)[1]

(* C4: when the source yields values, the entry's value is an owned copy:  *)
(* assigning to entry.value leaves the source (its elements, the           *)
(* generator's state, the view, the loop's iterators) unchanged, and the   *)
(* entries produced are those of the unmodified source.                    *)
(* (Under SpecTraverse.)                                                   *)
C4_ValueEntryIsIndependentCopy ==
    [][ ~yields_reference(kind) =>
          /\ (pc = "body" /\ pc' = "inc") =>
                /\ x.ref = NoRef
                /\ values' = values /\ current' = current /\ final' = final
                /\ view' = view /\ loop_it' = loop_it /\ loop_end' = loop_end
          /\ (pass' = 1 \/ kind = "my_range") =>
                \A i \in 1 .. Len(out'[pass']) :
                    out'[pass'][i] = ExpectedEntries(InitialValues(kind, n))[i] ]_vars

C4_Witness ==
    /\ ~yields_reference(kind)
    /\ pc = "inc"
    /\ x.value \in WriteVals
    /\ Len(out[1]) >= 2
    /\ values = InitialValues(kind, n)

(* C5: traversing the same view twice over a restartable source (a         *)
(* container or my_range that the loop body did not modify) yields two     *)
(* identical entry sequences, each starting at index 0 and each of         *)
(* length n.  (Under SpecTraverse.)                                        *)
C5_RetraversalYieldsSameEntries ==
    (/\ pass = 2 /\ pc = "done"
     /\ kind # "numeric_range"
     /\ values = InitialValues(kind, n)) =>
        /\ out[1] = out[2]
        /\ Len(out[1]) = n /\ Len(out[2]) = n
        /\ \A p \in 1 .. 2 : Len(out[p]) > 0 => out[p][1].index = 0

(* C6: over a position + sentinel pair of different types (my_range) with  *)
(* n elements the loop ends after exactly n advances, with the entry       *)
(* indices 0 .. n-1 in order.  (Under SpecTraverse.)                       *)
C6_SentinelLoopEndsAfterNAdvances ==
    (kind = "my_range" /\ pc = "done") =>
        /\ loop_it.advanced = n
        /\ Len(out[pass]) = n
        /\ \A i \in 1 .. Len(out[pass]) : out[pass][i].index = i - 1

\* which alternative an iterator holds: what was constructed in its storage
Positioned(it) == it.holds = "UnderlyingIterator"
AtEnd(it) == it.holds = "UnderlyingSentinel"

\* the three rules of iterator equality
EqualByRules(l, r) ==
    CASE Positioned(l) /\ Positioned(r) -> l.index = r.index
      [] Positioned(l) /\ AtEnd(r) -> ~underlying_neq(kind, n, l.storage, r.storage)
      [] AtEnd(l) /\ Positioned(r) -> ~underlying_neq(kind, n, r.storage, l.storage)
      [] AtEnd(l) /\ AtEnd(r) -> TRUE

(* C7: for every pair of iterators, in either order: two Positioned        *)
(* iterators are equal iff their indices are equal; a Positioned and an    *)
(* AtEnd iterator are equal iff the position equals the limit under the    *)
(* source's comparison; two AtEnd iterators are equal.  (Under Spec.)      *)
C7_EqualityFollowsThreeRules ==
    (last # None /\ last.op = "compare") =>
        /\ last.eq = EqualByRules(last.before, last.other)
        /\ last.ne = ~EqualByRules(last.before, last.other)

\* the rules do hold of every pair the adapter recognises for what it is
C7_HoldsWhenRecognised ==
    (/\ last # None /\ last.op = "compare"
     /\ Positioned(last.before) <=> is_iterator(last.before)
     /\ Positioned(last.other) <=> is_iterator(last.other)) =>
        /\ last.eq = EqualByRules(last.before, last.other)
        /\ last.ne = ~EqualByRules(last.before, last.other)

\* the element an underlying iterator u pointed at, read after one advance
\* of it (the generator has moved on by one since)
ElementBeforeAdvance(u) ==
    IF kind = "numeric_range" THEN current - 1 ELSE values[u.pos + 1]

\* numeric_range::current as it was before the advance just made
CurrentBeforeAdvance ==
    IF kind = "numeric_range" THEN current - 1 ELSE current

StartAdvancedBy(k) == [view.source_begin EXCEPT !.pos = @ + k]

\* index and position of a Positioned iterator agree with its history
CountsAdvances(it) ==
    /\ it.index = it.advanced
    /\ kind # "numeric_range" => it.storage = StartAdvancedBy(it.advanced)

C10_BeginEndCopyStoredMarkers ==
    /\ view = indexed_view(kind, n, base, base + n)
    /\ (last # None /\ last.op = "begin") =>
          /\ Positioned(its[last.a]) /\ is_iterator(its[last.a])
          /\ its[last.a].index = 0
          /\ its[last.a].storage = view.source_begin
    /\ (last # None /\ last.op = "end") =>
          /\ AtEnd(its[last.a]) /\ ~is_iterator(its[last.a])
          /\ its[last.a].storage = view.source_end

C10_Witness ==
    \E s, t \in Slots :
        /\ last # None /\ last.op = "begin" /\ last.a = s
        /\ its[s].index = 0
        /\ its[t] # None /\ its[t].advanced >= 2

\* what the copy and move forms promise of the target: the alternative,
\* index and payload the source had
SameAsSource(target, source) ==
    /\ target.holds = source.holds
    /\ target.index = source.index
    /\ target.storage = source.storage

(* C13: copy and move construction and assignment transfer exactly the     *)
(* live alternative.  After a = b with a and b distinct, a has the         *)
(* alternative, index and payload b had; the payload a held before was     *)
(* retired once, as what it was, and before the new payload was            *)
(* activated; the copy forms leave b unchanged; assigning an iterator to   *)
(* itself leaves it unchanged and retires nothing.  (Under Spec.)          *)
C13_AssignmentTransfersLiveAlternative ==
    last # None =>
        /\ last.op \in {"copy", "move"} =>
              /\ SameAsSource(its[last.a], last.other)
              /\ last.events = << [ev |-> "construct", as |-> last.other.holds] >>
        /\ (last.op \in {"copy_assign", "move_assign"} /\ last.a # last.b) =>
              /\ SameAsSource(its[last.a], last.other)
              /\ last.events =
                    << [ev |-> "destroy", as |-> last.before.holds,
                        was |-> last.before.holds],
                       [ev |-> "construct", as |-> last.other.holds] >>
        /\ (last.op \in {"copy", "copy_assign"} /\ last.a # last.b) =>
              its[last.b] = last.other
        /\ (last.op \in {"copy_assign", "move_assign"} /\ last.a = last.b) =>
              /\ its[last.a] = last.before
              /\ last.events = << >>

\* an iterator that holds an underlying iterator and is recognised as one
Recognised(it) == it = None \/ (Positioned(it) <=> is_iterator(it))

\* C13 for operands whose discriminant agrees with what they hold
C13_HoldsWhenRecognised ==
    (last # None /\ Recognised(last.before) /\ Recognised(last.other)) =>
        C13_AssignmentTransfersLiveAlternative

\* operations that only observe
Observers == {"deref", "arrow", "compare", "begin", "end"}

(* C14: dereference, arrow, the comparisons, begin() and end() never step  *)
(* the underlying source and never change an existing iterator's           *)
(* alternative, index or position; each adapter advance steps the source   *)
(* exactly once and touches no other iterator; dereferencing the same      *)
(* iterator again with no advance in between returns the same index and    *)
(* element, and arrow access returns what dereference returns.             *)
(* (Under Spec.)                                                           *)
C14_ObserversChangeNothing ==
    [][ /\ (last' # None /\ last'.op \in Observers) =>
              /\ current' = current
              /\ values' = values
              /\ view' = view
              /\ \A s \in Slots : its[s] # None => its'[s] = its[s]
              /\ last'.op \in {"deref", "arrow", "compare"} => its' = its
        /\ (last' # None /\ last'.op \in {"advance", "postinc"}) =>
              /\ \A s \in Slots : s # last'.a => its'[s] = its[s]
              /\ IF kind = "numeric_range"
                 THEN current' = current + 1
                 ELSE /\ current' = current
                      /\ its'[last'.a].storage.pos = its[last'.a].storage.pos + 1
        /\ (/\ last # None /\ last' # None
            /\ last.op \in {"deref", "arrow"} /\ last'.op \in {"deref", "arrow"}
            /\ last'.a = last.a) =>
              last'.entry = last.entry ]_vars

C14_Witness ==
    \E s, t \in Slots :
        /\ s # t
        /\ last # None /\ last.op = "arrow" /\ last.a = s
        /\ its[s] = last.before /\ its[s].advanced = 2
        /\ last.entry = dereference(kind, values, current, its[s])
        /\ its[t] # None /\ Positioned(its[t])

(* C15: advancing never changes which alternative is live: an iterator     *)
(* that derives from begin() and has been advanced k times is still        *)
(* recognised as holding an underlying iterator, for every k the size_t    *)
(* index can represent, 2^W - 1 included.  (Under Spec.)                   *)
C15_AdvanceKeepsAlternative ==
    \A s \in Slots :
        (its[s] # None /\ Positioned(its[s]) /\ its[s].advanced \in 0 .. SizeMod - 1) =>
            is_iterator(its[s])

\* C15 for fewer advances than the marker value
C15_HoldsBelowMarker ==
    \A s \in Slots :
        (its[s] # None /\ Positioned(its[s]) /\ its[s].advanced < sentinel_marker) =>
            is_iterator(its[s])

(* C16: whatever the sequence of begin, end, copy, move, assignment,       *)
(* advance and destruction, the payload in an iterator's storage is of the *)
(* kind its discriminant indicates (an underlying iterator exactly when    *)
(* index differs from the marker), every payload is destroyed as the kind  *)
(* it was constructed as, and a moved-from iterator keeps its index.       *)
(* (Under Spec.)                                                           *)
C16_StorageMatchesDiscriminant ==
    /\ \A s \in Slots : Recognised(its[s])
    /\ last # None =>
          /\ \A i \in DOMAIN last.events :
                last.events[i].ev = "destroy" => last.events[i].as = last.events[i].was
          /\ (last.op \in {"move", "move_assign"} /\ last.a # last.b) =>
                its[last.b].index = last.other.index

\* storage that still exists: of the temporary, of each view not destroyed
LiveBufs ==
    {b \in {temporary.buf} : temporary.state # "destroyed"}
    \cup {views[o].buf : o \in {p \in ViewIds : InState(p, {"holder", "built", "live"})}}

\* a stored marker m of a view whose range refers into storage b is a
\* reference into that storage, or holds no reference at all
RefersInto(m, b) == m.into = NoBuf \/ (m.into = b /\ m.into \in LiveBufs)

(* C11: while the factory constructs the owning view from a temporary,     *)
(* the range is first moved into the view's own storage, the view storing  *)
(* no start or limit yet, and only then are start and limit captured, from *)
(* the range held in the view; the view never stores a start or limit      *)
(* taken from the caller's temporary.  (Under SpecOwn.)                    *)
C11_RelocateThenCapture ==
    \A o \in ViewIds :
        /\ InState(o, {"holder"}) =>
              /\ temporary.state = "moved_from"
              /\ views[o].buf = buf_moved_to(kind, TemporaryPlace, o)
              /\ views[o].source_begin = None
              /\ views[o].source_end = None
        /\ InState(o, {"built"}) =>
              /\ temporary.state = "moved_from"
              /\ views[o].source_begin =
                    get_source_begin(kind, n, current, final, views[o].buf)
              /\ views[o].source_end = get_source_end(kind, n, views[o].buf)
              /\ temporary.buf # views[o].buf

C11_Witness ==
    \E o \in ViewIds :
        /\ InState(o, {"built"})
        /\ kind = "numeric_range" /\ n = 2
        /\ views[o].source_begin.into = o
        /\ views[o].source_end.into = NoBuf

\* a view that owns a range: constructed, not destroyed, not moved from
Owning(o) == InState(o, {"built", "live"}) /\ views[o].range = "held"

(* C12: every owning view, one made by copying or moving another view      *)
(* included, stores a start and a limit that refer into its own held       *)
(* range, which no other view and not the temporary shares, so that the    *)
(* markers are valid for as long as the view exists.  (Under SpecOwn.)     *)
C12_MarkersReferToOwnRange ==
    \A o \in ViewIds :
        Owning(o) =>
            /\ RefersInto(views[o].source_begin, views[o].buf)
            /\ RefersInto(views[o].source_end, views[o].buf)
            /\ \A p \in ViewIds \ {o} :
                  (InState(p, {"holder", "built", "live"}) /\ views[p].buf # NoBuf) =>
                      views[p].buf # views[o].buf
            /\ temporary.state # "destroyed" => temporary.buf # views[o].buf

\* C12 for the views the constructor made and copy elision handed over
C12_HoldsForConstructedViews ==
    \A o \in ViewIds :
        (Owning(o) /\ views[o].made = "constructed") =>
            /\ RefersInto(views[o].source_begin, views[o].buf)
            /\ RefersInto(views[o].source_end, views[o].buf)

====
